---- MODULE Spec2Model ----
(***************************************************************************)
(* Model of server.js of trip-planner-demo: the debug-console fan-out      *)
(* (debugClients, logToDebug, the WebSocket connection handler) and the    *)
(* POST /api/generate-itinerary handler (request entry, the stream loop    *)
(* with its REASONING:/RESULT: classifier, result extraction, the catch).  *)
(*                                                                         *)
(* Text is a sequence of one-character strings, so that includes, split,   *)
(* trim and replace are computed as JavaScript computes them.              *)
(*                                                                         *)
(* The handler is an async function: it runs without interruption between  *)
(* two awaits, so there is one action per stretch of code between awaits.  *)
(*                                                                         *)
(* server.js holds the program twice (lines 1-262 and 264-552); the second *)
(* copy differs in the prompt text and in two more log lines only.  The    *)
(* line numbers in the comments are those of the first copy.               *)
(*                                                                         *)
(* Spec is the server with the ws library's contract for send(): on an     *)
(* OPEN socket it does not throw.  SpecSendFail adds connections whose     *)
(* send() throws, to see what logToDebug and its callers do then.          *)
(* SpecDisconnect adds a caller that closes its connection before the      *)
(* response ends.  SpecTwo runs a second request next to the first.        *)
(* SpecFilter runs the start of the handler, with its geo filter, over a   *)
(* bounded set of request bodies.                                          *)
(***************************************************************************)
EXTENDS Integers, Sequences, FiniteSets, TLC

\* ------------------------------------------------------------------ bounds

\* Fragments the generator may deliver in free (exhaustive) choice; a stream
\* that follows one of the Scripts may be longer.
MaxFrags == 3

\* Debug-console connections (ws objects) over the life of the process.
NumObservers == 2

Observers == 1..NumObservers

\* ------------------------------------------------------------------- text

WhiteSpace == {" ", "\n", "\t"}

REASONING_MARK == <<"R","E","A","S","O","N","I","N","G",":">>

RESULT_MARK == <<"R","E","S","U","L","T",":">>

\* s.substring(from - 1, to) with 1-based inclusive positions.
Slice(s, from, to) == SubSeq(s, from, to)

\* Does sub occur in s at position i (1-based)?
OccursAt(s, sub, i) ==
  /\ i >= 1
  /\ i + Len(sub) - 1 <= Len(s)
  /\ \A k \in 1..Len(sub) : s[i + k - 1] = sub[k]

\* s.indexOf(sub) + 1: the first position of sub in s, 0 when absent.
IndexOf(s, sub) ==
  LET hits == {i \in 1..(Len(s) - Len(sub) + 1) : OccursAt(s, sub, i)}
  IN  IF hits = {} THEN 0 ELSE CHOOSE i \in hits : \A j \in hits : i <= j

\* s.includes(sub)
Includes(s, sub) == IndexOf(s, sub) # 0

\* s.includes(c) for a single character
HasChar(s, c) == \E i \in 1..Len(s) : s[i] = c

\* s.split(sep) for a non-empty string separator: the pieces between ALL the
\* occurrences of sep, found left to right without overlap.
RECURSIVE Split(_, _)
Split(s, sep) ==
  LET i == IndexOf(s, sep)
  IN  IF i = 0 THEN <<s>>
      ELSE <<Slice(s, 1, i - 1)>> \o Split(Slice(s, i + Len(sep), Len(s)), sep)

\* s.trim()
RECURSIVE TrimStart(_)
TrimStart(s) ==
  IF s # <<>> /\ Head(s) \in WhiteSpace THEN TrimStart(Tail(s)) ELSE s

RECURSIVE TrimEnd(_)
TrimEnd(s) ==
  IF s # <<>> /\ s[Len(s)] \in WhiteSpace
  THEN TrimEnd(Slice(s, 1, Len(s) - 1)) ELSE s

Trim(s) == TrimEnd(TrimStart(s))

\* s.replace(pat, '') with a string pattern: only the FIRST occurrence goes.
RemoveFirst(s, pat) ==
  LET i == IndexOf(s, pat)
  IN  IF i = 0 THEN s
      ELSE Slice(s, 1, i - 1) \o Slice(s, i + Len(pat), Len(s))

\* s.substring(0, n)
Substring0(s, n) == Slice(s, 1, IF Len(s) < n THEN Len(s) ELSE n)

SentenceEnd == {".", "!", "?"}

\* Length of the whitespace run starting at position i of s.
RECURSIVE SpaceRun(_, _)
SpaceRun(s, i) ==
  IF i <= Len(s) /\ s[i] \in WhiteSpace THEN 1 + SpaceRun(s, i + 1) ELSE 0

\* First position i >= from where /(?<=[.!?])\s+/ matches: a whitespace
\* character right after a sentence terminator; 0 when there is none.
NextBoundary(s, from) ==
  LET hits == {i \in from..Len(s) :
                 i >= 2 /\ s[i] \in WhiteSpace /\ s[i - 1] \in SentenceEnd}
  IN  IF hits = {} THEN 0 ELSE CHOOSE i \in hits : \A j \in hits : i <= j

\* s.split(/(?<=[.!?])\s+/)
RECURSIVE SplitSentences(_)
SplitSentences(s) ==
  LET i == NextBoundary(s, 1)
  IN  IF i = 0 THEN <<s>>
      ELSE <<Slice(s, 1, i - 1)>>
           \o SplitSentences(Slice(s, i + SpaceRun(s, i), Len(s)))


\* ------------------------------------------------------------- the stream

\* The empty string.
Empty == <<>>

\* What chunk.choices[0]?.delta?.content || '' can be for one stream chunk.
\* Empty stands for a chunk without text (a role-only or a finish chunk).
Frags ==
  { Empty,
    REASONING_MARK,
    RESULT_MARK,
    <<" ","a"," ">>,
    <<" ","W","e"," ","p","i","c","k"," ","t","w","o","."," ">> }

\* Longer streams the generator may also deliver, fragment by fragment.
Scripts ==
  { << <<"R","E","A","S">>, <<"O","N","I","N","G",":">>,
       <<" ","h","e","l","l","o"," ","w","o","r","l","d","."," ">>,
       <<"m","o","r","e"," ","t","e","x","t","."," ">>,
       <<"R","E">>, <<"S","U","L","T",":"," ","[","1","]">> >>,
    << REASONING_MARK, <<" ","o","k","."," ">>, RESULT_MARK, <<" ","a"," ">>,
       RESULT_MARK, <<" ","b">> >>,
    << <<"R","E","A","S","O","N","I","N","G",":"," ","o","k","."," ","R","E">>,
       <<"S","U","L","T",":"," ","[","1","]">> >>,
    << REASONING_MARK, <<" ","W","e"," ","p","i","c","k"," ","t","w","o",".">>,
       <<" ">>, RESULT_MARK >> }

IsPrefix(p, s) == Len(p) <= Len(s) /\ \A i \in 1..Len(p) : p[i] = s[i]

\* May the generator deliver content next, after the stream so far?  A
\* stream is up to MaxFrags fragments of Frags in any order, or it follows
\* one of the Scripts.
CanDeliver(sofar, content) ==
  \/ /\ Len(sofar) < MaxFrags
     /\ content \in Frags
     /\ \A i \in 1..Len(sofar) : sofar[i] \in Frags
  \/ \E s \in Scripts : IsPrefix(Append(sofar, content), s)

\* The chunks with text, in order.
RECURSIVE WithText(_)
WithText(ss) ==
  IF ss = <<>> THEN <<>>
  ELSE (IF Head(ss) = Empty THEN <<>> ELSE <<Head(ss)>>) \o WithText(Tail(ss))

\* ------------------------------------------------------------------ state

VARIABLES
  debugClients,    \* the Set of ws objects, in insertion order
  readyState,      \* ws.readyState of each connection ("NONE": not yet made)
  broken,          \* OPEN connections whose send() throws
  wire,            \* what the logToDebug calls of the last step delivered
  body,            \* req.body: which of its parts are there
  pc,              \* where the request handler is
  stream,          \* the generator call: none, requested, open, ended, failed
  emitted,         \* the logToDebug calls the request handler has made
  delivered,       \* the stream chunks' contents the generator has yielded
  fullResponse,    \* let fullResponse
  reasoningBuffer, \* let reasoningBuffer
  inReasoning,     \* let inReasoning
  res,             \* the HTTP response of the request
  input,           \* req.body: hotel, activities and preferences, when there
  filtered,        \* const filtered
  timeline,        \* the handler's logToDebug and res.write calls, in order
  other            \* a second request in flight: its handler's locals and response

vars == <<debugClients, readyState, broken, wire, body, pc, stream, emitted,
          delivered, fullResponse, reasoningBuffer, inReasoning, res,
          input, filtered, timeline, other>>

Range(q) == {q[i] : i \in 1..Len(q)}

\* Mutant of Without: debugClients.delete(ws) removes nothing.
WithoutNothing(q, x) == q

\* debugClients.delete(x)
RECURSIVE Without(_, _)
Without(q, x) ==
  IF q = <<>> THEN <<>>
  ELSE (IF Head(q) = x THEN <<>> ELSE <<Head(q)>>) \o Without(Tail(q), x)

\* ---------------------------------------------------------------- fan-out

Msg(tag, arg) == [tag |-> tag, arg |-> arg]

\* The clients forEach reaches before a send throws: every client in
\* insertion order, stopping at the first OPEN one whose send throws.
RECURSIVE Reached(_, _, _)
Reached(clients, rs, bad) ==
  IF clients = <<>> THEN <<>>
  ELSE IF rs[Head(clients)] = "OPEN" /\ Head(clients) \in bad
       THEN <<Head(clients)>>
       ELSE <<Head(clients)>> \o Reached(Tail(clients), rs, bad)

\* Mutant of SendsTo: the readyState test is left out.
SendsToAll(clients, rs, bad) ==
  {o \in Range(Reached(clients, rs, bad)) : o \notin bad}

\* if (client.readyState === WebSocket.OPEN) client.send(...)
SendsTo(clients, rs, bad) ==
  {o \in Range(Reached(clients, rs, bad)) : rs[o] = "OPEN" /\ o \notin bad}

SendThrows(clients, rs, bad) ==
  \E o \in Range(clients) : rs[o] = "OPEN" /\ o \in bad

\* One call of logToDebug: who got the record, and whether a send threw.
logToDebug(clients, rs, bad, message, level) ==
  [message |-> message,
   level   |-> level,
   to      |-> SendsTo(clients, rs, bad),
   threw   |-> SendThrows(clients, rs, bad)]

\* The logToDebug calls a stretch of code makes, in order, up to the first
\* one that throws.
Broadcasts(clients, rs, bad, logs) ==
  IF logs = <<>> THEN <<>>
  ELSE IF SendThrows(clients, rs, bad)
       THEN <<logToDebug(clients, rs, bad, logs[1][1], logs[1][2])>>
       ELSE [i \in 1..Len(logs) |->
               logToDebug(clients, rs, bad, logs[i][1], logs[i][2])]

Threw(w) == \E i \in 1..Len(w) : w[i].threw

reqVars == <<body, pc, stream, emitted, delivered,
             fullResponse, reasoningBuffer, inReasoning, res,
             input, filtered, timeline, other>>

\* The process is up: no unhandled rejection has ended it.
Running == pc # "crashed"

\* The (message, level) arguments of the logToDebug calls behind deliveries w.
Calls(w) == [i \in 1..Len(w) |-> <<w[i].message, w[i].level>>]

\* Entries of the timeline: a logToDebug call, a res.write call.
Logged(calls) == [i \in 1..Len(calls) |-> [out |-> "log", call |-> calls[i]]]

Written(event) == [out |-> "write", event |-> event]

\* Mutant of Relay: the chunk is written before the fragment is classified.
RelayWriteFirst(tl, calls, event) == (tl \o <<Written(event)>>) \o Logged(calls)

\* The order of one turn of the loop: the logToDebug calls of the marker
\* detection and of the sentence logging, then res.write of the chunk.
Relay(tl, calls, event) == (tl \o Logged(calls)) \o <<Written(event)>>

\* wss.on('connection', ws => { debugClients.add(ws); logToDebug(...) })
Connect(o) ==
  /\ Running
  /\ readyState[o] = "NONE"
  /\ \A n \in Observers : n < o => readyState[n] # "NONE"  \* o is the next connection made
  /\ readyState' = [readyState EXCEPT ![o] = "OPEN"]
  /\ debugClients' = Append(debugClients, o)
  /\ wire' = Broadcasts(debugClients', readyState', broken,
                        << <<Msg("Debug console connected", Empty), "success">> >>)
  /\ UNCHANGED <<broken, reqVars>>

\* The peer starts closing: the ws leaves OPEN, its 'close' event is yet to come.
BeginClose(o) ==
  /\ Running
  /\ readyState[o] = "OPEN"
  /\ readyState' = [readyState EXCEPT ![o] = "CLOSING"]
  /\ broken' = broken \ {o}
  /\ wire' = <<>>
  /\ UNCHANGED <<debugClients, reqVars>>

\* ws.on('close', () => { debugClients.delete(ws); logToDebug(...) })
Close(o) ==
  /\ Running
  /\ readyState[o] \in {"OPEN", "CLOSING"}
  /\ readyState' = [readyState EXCEPT ![o] = "CLOSED"]
  /\ debugClients' = Without(debugClients, o)
  /\ broken' = broken \ {o}
  /\ wire' = Broadcasts(debugClients', readyState', broken,
                        << <<Msg("Debug console disconnected", Empty), "info">> >>)
  /\ UNCHANGED reqVars

\* The socket of an OPEN connection fails so that send() throws from now on.
BreakSocket(o) ==
  /\ Running
  /\ readyState[o] = "OPEN"
  /\ o \notin broken
  /\ broken' = broken \cup {o}
  /\ wire' = <<>>
  /\ UNCHANGED <<debugClients, readyState, reqVars>>


\* ------------------------------------------------------- the HTTP response

\* res before the handler touches it.
FreshRes ==
  [headersSent |-> FALSE, \* res.headersSent: the status line and headers went out
   status      |-> 0,     \* the status code that went out, 0 before
   events      |-> <<>>,  \* the "data: ..." events written, in order
   error       |-> <<>>,  \* the { error } JSON body, when one was sent
   ended       |-> FALSE, \* res.end() was called
   destroyed   |-> FALSE, \* the socket was torn down under the response
   gone        |-> FALSE] \* the caller closed the connection

\* Mutant of Event: the content is trimmed before it is sent.
EventTrimmed(type, content) == [type |-> type, content |-> Trim(content)]

\* JSON.stringify({ type, content }) / JSON.stringify({ type, response })
Event(type, content) == [type |-> type, content |-> content]

\* res.write(`data: ${JSON.stringify(event)}\n\n`): the first write sends the
\* headers with the default status.
Write(r, event) ==
  [r EXCEPT !.headersSent = TRUE,
            !.status = IF r.headersSent THEN r.status ELSE 200,
            !.events = Append(r.events, event)]

\* Mutant of Finish: res.end() is left out.
FinishWithoutEnd(r, response) == Write(r, Event("done", response))

\* res.write(`data: ${JSON.stringify({ type: 'done', response })}\n\n`);
\* res.end()
Finish(r, response) ==
  [Write(r, Event("done", response)) EXCEPT !.ended = TRUE]

\* Does res.status(500).json(...) throw?  json() sets Content-Type, and
\* setHeader throws ERR_HTTP_HEADERS_SENT once the headers went out.
JsonThrows(r) == r.headersSent

\* res.status(500).json({ error: message }) when it does not throw.
Json500(r, message) ==
  [r EXCEPT !.headersSent = TRUE, !.status = 500,
            !.error = message, !.ended = TRUE]

\* ------------------------------------------------------------- classifier

Started == <<Msg("AI started reasoning process...", Empty), "info">>

Completed == <<Msg("AI completed reasoning, generating itinerary...", Empty), "success">>

\* sentence.length > 10
MinSentenceLen == 10

\* reasoning.substring(0, 200)
SummaryLen == 200

\* Mutant of Accumulated: = in the place of +=.
AccumulatedAnew(full, content) == content

\* fullResponse += content
Accumulated(full, content) == full \o content

\* Mutant of SentenceLogs: the length test is left out.
RECURSIVE SentenceLogsAll(_)
SentenceLogsAll(parts) ==
  IF Len(parts) <= 1 THEN <<>>
  ELSE << <<Msg("AI: ", Trim(Head(parts))), "info">> >> \o SentenceLogsAll(Tail(parts))

\* logToDebug(`AI: ${sentence}`, 'info') for the completed sentences of buf:
\* all pieces of the split but the last, trimmed, longer than 10.
RECURSIVE SentenceLogs(_)
SentenceLogs(parts) ==
  IF Len(parts) <= 1 THEN <<>>
  ELSE (IF Len(Trim(Head(parts))) > MinSentenceLen
        THEN << <<Msg("AI: ", Trim(Head(parts))), "info">> >>
        ELSE <<>>) \o SentenceLogs(Tail(parts))

\* The completed sentences the test sentence && sentence.length > 10 passes
\* over: all pieces of the split but the last, trimmed, of 10 or fewer.
RECURSIVE Skipped(_)
Skipped(parts) ==
  IF Len(parts) <= 1 THEN <<>>
  ELSE (IF Len(Trim(Head(parts))) > MinSentenceLen
        THEN <<>> ELSE <<Trim(Head(parts))>>) \o Skipped(Tail(parts))

\* Mutant of Classify: inReasoning = false is left out where RESULT: is found.
ClassifyKeepsFlag(buf, inR, content) ==
  LET buf1     == buf \o content
      startHit == Includes(buf1, REASONING_MARK) /\ ~inR
      inR1     == IF startHit THEN TRUE ELSE inR
      buf2     == IF startHit THEN Empty ELSE buf1
      endHit   == Includes(buf2, RESULT_MARK) /\ inR1
      inR2     == inR1
      buf3     == IF endHit THEN Empty ELSE buf2
      segment  == /\ inR2
                  /\ Trim(content) # Empty
                  /\ (HasChar(content, ".") \/ HasChar(content, "\n"))
      parts    == SplitSentences(buf3)
  IN  [inReasoning     |-> inR2,
       reasoningBuffer |-> IF segment THEN parts[Len(parts)] ELSE buf3,
       logs            |-> (IF startHit THEN <<Started>> ELSE <<>>)
                           \o (IF endHit THEN <<Completed>> ELSE <<>>)
                           \o (IF segment THEN SentenceLogs(parts) ELSE <<>>),
       skipped         |-> IF segment THEN Skipped(parts) ELSE <<>>,
       \* the locals at the moment the first logToDebug call is made
       atFirstLog      |-> IF startHit THEN [inReasoning |-> TRUE, reasoningBuffer |-> buf1]
                           ELSE IF endHit THEN [inReasoning |-> inR1, reasoningBuffer |-> buf2]
                           ELSE [inReasoning |-> inR2, reasoningBuffer |-> buf3]]

\* The body of the stream loop for one chunk with text, up to the res.write:
\* the locals afterwards and the logToDebug calls made, in order.
Classify(buf, inR, content) ==
  LET buf1     == buf \o content
      startHit == Includes(buf1, REASONING_MARK) /\ ~inR
      inR1     == IF startHit THEN TRUE ELSE inR
      buf2     == IF startHit THEN Empty ELSE buf1
      endHit   == Includes(buf2, RESULT_MARK) /\ inR1
      inR2     == IF endHit THEN FALSE ELSE inR1
      buf3     == IF endHit THEN Empty ELSE buf2
      segment  == /\ inR2
                  /\ Trim(content) # Empty
                  /\ (HasChar(content, ".") \/ HasChar(content, "\n"))
      parts    == SplitSentences(buf3)
  IN  [inReasoning     |-> inR2,
       reasoningBuffer |-> IF segment THEN parts[Len(parts)] ELSE buf3,
       logs            |-> (IF startHit THEN <<Started>> ELSE <<>>)
                           \o (IF endHit THEN <<Completed>> ELSE <<>>)
                           \o (IF segment THEN SentenceLogs(parts) ELSE <<>>),
       skipped         |-> IF segment THEN Skipped(parts) ELSE <<>>,
       \* the locals at the moment the first logToDebug call is made
       atFirstLog      |-> IF startHit THEN [inReasoning |-> TRUE, reasoningBuffer |-> buf1]
                           ELSE IF endHit THEN [inReasoning |-> FALSE, reasoningBuffer |-> buf2]
                           ELSE [inReasoning |-> inR2, reasoningBuffer |-> buf3]]

\* -------------------------------------------------------- result extraction

\* Mutant of ExtractResult: the result is everything after the first RESULT:.
ExtractAfterFirst(full) ==
  LET i == IndexOf(full, RESULT_MARK)
  IN  IF i # 0
      THEN [jsonResult |-> Trim(Slice(full, i + Len(RESULT_MARK), Len(full))),
            reasoning  |-> Trim(RemoveFirst(Slice(full, 1, i - 1), REASONING_MARK))]
      ELSE [jsonResult |-> full, reasoning |-> Empty]

\* Mutant of ExtractResult: the text without RESULT: is trimmed too.
ExtractTrimAlways(full) ==
  IF Includes(full, RESULT_MARK)
  THEN LET parts == Split(full, RESULT_MARK)
       IN  [jsonResult |-> Trim(parts[2]),
            reasoning  |-> Trim(RemoveFirst(parts[1], REASONING_MARK))]
  ELSE [jsonResult |-> Trim(full), reasoning |-> Empty]

\* let jsonResult = fullResponse; if (fullResponse.includes('RESULT:')) {...}
ExtractResult(full) ==
  IF Includes(full, RESULT_MARK)
  THEN LET parts == Split(full, RESULT_MARK)
       IN  [jsonResult |-> Trim(parts[2]),
            reasoning  |-> Trim(RemoveFirst(parts[1], REASONING_MARK))]
  ELSE [jsonResult |-> full, reasoning |-> Empty]

\* The summary log, made only for a non-empty reasoning.
SummaryLogs(reasoning) ==
  IF reasoning # Empty
  THEN << <<Msg("AI reasoning summary: ", Substring0(reasoning, SummaryLen)), "success">> >>
  ELSE <<>>

\* ------------------------------------------------------------- geo filter

\* The hotel and the activities lie on one meridian, at whole degrees of
\* latitude; prices and budgets are whole dollars, maxDistance whole miles.
\* Distances are in thousandths of a mile.

\* Activities in a request body.
MaxActivities == 2

\* R * (Math.PI / 180) with R = 3959 miles, in thousandths of a mile.
MilliMilesPerDegree == 69098

Abs(n) == IF n < 0 THEN -n ELSE n

\* calculateDistance for two points of equal longitude: dLon is 0, so a is
\* sin(dLat/2)^2, c is |dLat| in radians and the result R * |dLat| * PI / 180.
calculateDistance(lat1, lon1, lat2, lon2) ==
  MilliMilesPerDegree * Abs(lat2 - lat1)

\* activity.price || 0
PriceOrZero(activity) == IF activity.hasPrice THEN activity.price ELSE 0

\* Mutant of Admits: || in the place of &&.
AdmitsEither(hotel, activity, preferences) ==
  \/ calculateDistance(hotel.lat, hotel.lng, activity.lat, activity.lng)
        <= preferences.maxDistance * 1000
  \/ PriceOrZero(activity) <= preferences.budget

\* The callback of activities.filter
Admits(hotel, activity, preferences) ==
  /\ calculateDistance(hotel.lat, hotel.lng, activity.lat, activity.lng)
        <= preferences.maxDistance * 1000
  /\ PriceOrZero(activity) <= preferences.budget

\* activities.filter(activity => ...): a new array of the elements the
\* callback admits, visited from first to last.
RECURSIVE Filter(_, _, _)
Filter(activities, hotel, preferences) ==
  IF activities = <<>> THEN <<>>
  ELSE (IF Admits(hotel, Head(activities), preferences)
        THEN <<Head(activities)>> ELSE <<>>)
       \o Filter(Tail(activities), hotel, preferences)

Activity(name, lat, hasPrice, price) ==
  [name |-> name, lat |-> lat, lng |-> 0, hasPrice |-> hasPrice, price |-> price]

ActivityKinds ==
  { Activity("pier", 0, FALSE, 0),
    Activity("museum", 1, TRUE, 50),
    Activity("zoo", 1, TRUE, 120),
    Activity("park", 2, FALSE, 0),
    Activity("spa", 2, TRUE, 50) }

ActivityLists == UNION {[1..n -> ActivityKinds] : n \in 0..MaxActivities}

PreferenceKinds == [maxDistance : {69, 70, 139}, budget : {0, 50, 100}]

\* The hotel, activities and preferences of a request body.
Inputs ==
  [hotel : {[lat |-> 0, lng |-> 0]},
   activities : ActivityLists,
   preferences : PreferenceKinds]

SampleInput ==
  [hotel |-> [lat |-> 0, lng |-> 0],
   activities |-> <<Activity("museum", 1, TRUE, 50), Activity("park", 2, FALSE, 0)>>,
   preferences |-> [maxDistance |-> 70, budget |-> 50]]


\* ------------------------------------------------------ the request handler

\* Request bodies: which of hotel, activities, preferences the body carries.
Bodies == [hotel : BOOLEAN, activities : BOOLEAN, preferences : BOOLEAN]

TypeErrorText == <<"Cannot read properties of undefined">>

UpstreamErrorText == <<"upstream failed">>

Log(logs) == Broadcasts(debugClients, readyState, broken, logs)

\* catch (error) { logToDebug(`Error: ...`, 'error'); res.status(500).json(...) }
\* entered with the deliveries w made so far: the deliveries, the response and
\* where the handler ends.  An exception thrown inside the catch block leaves
\* the handler as a rejected promise.
Catch(w, message, r) ==
  LET log == Log(<< <<Msg("Error: ", message), "error">> >>)
  IN  IF Threw(log) \/ JsonThrows(r)
      THEN [wire |-> w \o log, res |-> r, pc |-> "rejected"]
      ELSE [wire |-> w \o log, res |-> Json500(r, message), pc |-> "responded"]

\* app.post('/api/generate-itinerary', async (req, res) => { ... up to the
\* await of openai.chat.completions.create
Entry ==
  /\ pc = "idle"
  /\ LET received == Log(<< <<Msg("Received itinerary request", Empty), "info">> >>)
         inTry    == Log(<< <<Msg("Filtering activities...", Empty), "info">>,
                            <<Msg("Found activities within criteria", Empty), "success">>,
                            <<Msg("Calling OpenAI GPT-4 Turbo...", Empty), "info">> >>)
         prefs    == Log(<< <<Msg("Preferences", Empty), "info">> >>)
         caught   == Catch(received \o prefs, TypeErrorText, res)
     IN  IF ~body.hotel
         THEN \* hotel.name throws before the try block
              /\ wire' = <<>>
              /\ pc' = "rejected"
              /\ res' = res
              /\ stream' = stream
              /\ filtered' = filtered
         ELSE IF Threw(received) \/ ~body.preferences
         THEN \* logToDebug or preferences.budget throws before the try block
              /\ wire' = received
              /\ pc' = "rejected"
              /\ res' = res
              /\ stream' = stream
              /\ filtered' = filtered
         ELSE IF ~body.activities
         THEN \* activities.length throws inside the try block
              /\ wire' = caught.wire
              /\ pc' = caught.pc
              /\ res' = caught.res
              /\ stream' = stream
              /\ filtered' = filtered
         ELSE \* ... activities.filter(...); res.setHeader(...);
              \* openai.chat.completions.create(...)
              /\ wire' = received \o prefs \o inTry
              /\ pc' = "creating"
              /\ res' = res
              /\ stream' = "requested"
              /\ filtered' = Filter(input.activities, input.hotel, input.preferences)
  /\ emitted' = emitted \o Calls(wire')
  /\ timeline' = timeline \o Logged(Calls(wire'))
  /\ UNCHANGED <<debugClients, readyState, broken, body, input, other, delivered,
                 fullResponse, reasoningBuffer, inReasoning>>

\* await openai.chat.completions.create(...) resolves with the stream;
\* let fullResponse = ''; ... let inReasoning = false
CreateResolves ==
  /\ pc = "creating"
  /\ pc' = "streaming"
  /\ fullResponse' = Empty
  /\ reasoningBuffer' = Empty
  /\ inReasoning' = FALSE
  /\ stream' = "open"
  /\ wire' = <<>>
  /\ UNCHANGED <<debugClients, readyState, broken, body, input, filtered, other,
                 emitted, timeline, delivered, res>>

\* await openai.chat.completions.create(...) rejects
CreateRejects ==
  /\ pc = "creating"
  /\ LET caught == Catch(<<>>, UpstreamErrorText, res)
     IN  /\ wire' = caught.wire
         /\ pc' = caught.pc
         /\ res' = caught.res
  /\ stream' = "failed"
  /\ emitted' = emitted \o Calls(wire')
  /\ timeline' = timeline \o Logged(Calls(wire'))
  /\ UNCHANGED <<debugClients, readyState, broken, body, input, filtered, other,
                 delivered, fullResponse, reasoningBuffer, inReasoning>>

\* One turn of for await (const chunk of stream) { ... }
NextChunk(content) ==
  /\ pc = "streaming"
  /\ CanDeliver(delivered, content)
  /\ delivered' = Append(delivered, content)
  /\ IF content = Empty
     THEN \* if (content) is false: nothing happens
          /\ wire' = <<>>
          /\ UNCHANGED <<pc, fullResponse, reasoningBuffer, inReasoning, res, timeline>>
     ELSE LET c      == Classify(reasoningBuffer, inReasoning, content)
              logs   == Log(c.logs)
              caught == Catch(logs, <<"send failed">>, res)
          IN  /\ fullResponse' = Accumulated(fullResponse, content)
              /\ IF Threw(logs)
                 THEN /\ inReasoning' = c.atFirstLog.inReasoning
                      /\ reasoningBuffer' = c.atFirstLog.reasoningBuffer
                      /\ wire' = caught.wire
                      /\ pc' = caught.pc
                      /\ res' = caught.res
                      /\ timeline' = timeline \o Logged(Calls(caught.wire))
                 ELSE /\ inReasoning' = c.inReasoning
                      /\ reasoningBuffer' = c.reasoningBuffer
                      /\ wire' = logs
                      /\ pc' = pc
                      /\ res' = Write(res, Event("chunk", content))
                      /\ timeline' = Relay(timeline, Calls(logs), Event("chunk", content))
  /\ emitted' = emitted \o Calls(wire')
  /\ UNCHANGED <<debugClients, readyState, broken, body, input, filtered, other, stream>>

\* The stream ends: the code after the loop, to the end of the try block.
StreamEnds ==
  /\ pc = "streaming"
  /\ LET x        == ExtractResult(fullResponse)
         complete == Log(<< <<Msg("OpenAI response complete", Empty), "success">> >>)
         summary  == Log(SummaryLogs(x.reasoning))
         success  == Log(<< <<Msg("Itinerary generated successfully", Empty), "success">> >>)
         rest     == summary \o success
         caught   == Catch(complete, <<"send failed">>, res)
     IN  IF Threw(complete)
         THEN /\ wire' = caught.wire
              /\ pc' = caught.pc
              /\ res' = caught.res
              /\ timeline' = timeline \o Logged(Calls(caught.wire))
         ELSE /\ wire' = complete \o rest
              /\ pc' = "done"
              /\ res' = Finish(res, x.jsonResult)
              /\ timeline' = timeline \o Logged(Calls(complete \o summary))
                                \o <<Written(Event("done", x.jsonResult))>>
                                \o Logged(Calls(success))
  /\ stream' = "ended"
  /\ emitted' = emitted \o Calls(wire')
  /\ UNCHANGED <<debugClients, readyState, broken, body, input, filtered, other,
                 delivered, fullResponse, reasoningBuffer, inReasoning>>

\* The stream throws while the loop awaits its next chunk.
StreamFails ==
  /\ pc = "streaming"
  /\ LET caught == Catch(<<>>, UpstreamErrorText, res)
     IN  /\ wire' = caught.wire
         /\ pc' = caught.pc
         /\ res' = caught.res
  /\ stream' = "failed"
  /\ emitted' = emitted \o Calls(wire')
  /\ timeline' = timeline \o Logged(Calls(wire'))
  /\ UNCHANGED <<debugClients, readyState, broken, body, input, filtered, other,
                 delivered, fullResponse, reasoningBuffer, inReasoning>>

\* The async handler's promise rejected; what follows depends on the
\* Express and Node versions installed.  Express 4 does not look at the
\* promise: the response is left as it is, and Node either only warns of the
\* unhandled rejection or ends the process.  Express 5 passes the error to
\* its default error handler, which answers 500 or, with the headers already
\* out, destroys the socket.
Unhandled ==
  /\ pc = "rejected"
  /\ \/ pc' = "hung" /\ res' = res
     \/ pc' = "crashed" /\ res' = [res EXCEPT !.destroyed = TRUE]
     \/ ~res.headersSent /\ pc' = "responded" /\ res' = Json500(res, <<"Internal Server Error">>)
     \/ res.headersSent /\ pc' = "aborted" /\ res' = [res EXCEPT !.destroyed = TRUE]
  /\ wire' = <<>>
  /\ UNCHANGED <<debugClients, readyState, broken, body, input, filtered, other,
                 stream, emitted, timeline, delivered,
                 fullResponse, reasoningBuffer, inReasoning>>

\* The caller closes its connection while the handler awaits the generator.
\* The handler registers no listener on req or res ('close', 'aborted') and
\* passes no AbortSignal to the generator call, so nothing of the handler
\* changes; a later res.write does not throw, its data goes nowhere.
CallerDisconnects ==
  /\ pc \in {"creating", "streaming"}
  /\ ~res.gone
  /\ res' = [res EXCEPT !.gone = TRUE]
  /\ wire' = <<>>
  /\ UNCHANGED <<debugClients, readyState, broken, body, input, filtered, other,
                 pc, stream, emitted, timeline, delivered,
                 fullResponse, reasoningBuffer, inReasoning>>

\* ---------------------------------------------------------- a second request

\* A second POST /api/generate-itinerary, with a well-formed body, handled
\* while the first one is in flight.  Its handler is the same code: its
\* locals and its response are the fields of other.

\* Fragments the generator of the second request may deliver.
MaxOtherFrags == 2

OtherFrags ==
  { REASONING_MARK,
    RESULT_MARK,
    <<" ","W","e"," ","p","i","c","k"," ","t","w","o","."," ">> }

IdleOther ==
  [pc              |-> "idle",
   delivered       |-> <<>>,
   fullResponse    |-> Empty,
   reasoningBuffer |-> Empty,
   inReasoning     |-> FALSE,
   emitted         |-> <<>>,
   res             |-> FreshRes]

\* The state of the first request.
firstVars == <<body, pc, stream, emitted, delivered, fullResponse,
               reasoningBuffer, inReasoning, res, input, filtered, timeline>>

\* Mutant of OtherLocals: reasoningBuffer and inReasoning are declared once,
\* outside the handler, so the second request reads those of the first.
ModuleLocals ==
  [reasoningBuffer |-> reasoningBuffer, inReasoning |-> inReasoning]

\* let reasoningBuffer, let inReasoning: declared inside the handler, so each
\* call of the handler has its own.
OtherLocals ==
  [reasoningBuffer |-> other.reasoningBuffer, inReasoning |-> other.inReasoning]

\* The second handler up to its await of openai.chat.completions.create
OtherEntry ==
  /\ other.pc = "idle"
  /\ LET logs   == Log(<< <<Msg("Received itinerary request", Empty), "info">>,
                          <<Msg("Preferences", Empty), "info">>,
                          <<Msg("Filtering activities...", Empty), "info">>,
                          <<Msg("Found activities within criteria", Empty), "success">>,
                          <<Msg("Calling OpenAI GPT-4 Turbo...", Empty), "info">> >>)
     IN  /\ wire' = logs
         /\ other' = [other EXCEPT !.pc = IF Threw(logs) THEN "rejected" ELSE "creating",
                                   !.emitted = @ \o Calls(logs)]
  /\ UNCHANGED <<debugClients, readyState, broken, firstVars>>

\* Its await resolves with the stream; its locals are initialised.
OtherCreateResolves ==
  /\ other.pc = "creating"
  /\ other' = [other EXCEPT !.pc = "streaming",
                            !.fullResponse = Empty,
                            !.reasoningBuffer = Empty,
                            !.inReasoning = FALSE]
  /\ wire' = <<>>
  /\ UNCHANGED <<debugClients, readyState, broken, firstVars>>

\* One turn of its loop, for a chunk with text.
OtherChunk(content) ==
  /\ other.pc = "streaming"
  /\ Len(other.delivered) < MaxOtherFrags
  /\ content \in OtherFrags
  /\ LET c      == Classify(OtherLocals.reasoningBuffer, OtherLocals.inReasoning, content)
         logs   == Log(c.logs)
         caught == Catch(logs, <<"send failed">>, other.res)
     IN  IF Threw(logs)
         THEN /\ wire' = caught.wire
              /\ other' = [other EXCEPT !.pc = caught.pc,
                                        !.res = caught.res,
                                        !.delivered = Append(@, content),
                                        !.fullResponse = Accumulated(@, content),
                                        !.reasoningBuffer = c.atFirstLog.reasoningBuffer,
                                        !.inReasoning = c.atFirstLog.inReasoning,
                                        !.emitted = @ \o Calls(caught.wire)]
         ELSE /\ wire' = logs
              /\ other' = [other EXCEPT !.res = Write(@, Event("chunk", content)),
                                        !.delivered = Append(@, content),
                                        !.fullResponse = Accumulated(@, content),
                                        !.reasoningBuffer = c.reasoningBuffer,
                                        !.inReasoning = c.inReasoning,
                                        !.emitted = @ \o Calls(logs)]
  /\ UNCHANGED <<debugClients, readyState, broken, firstVars>>

\* Its stream ends: the code after the loop.
OtherEnds ==
  /\ other.pc = "streaming"
  /\ LET x        == ExtractResult(other.fullResponse)
         complete == Log(<< <<Msg("OpenAI response complete", Empty), "success">> >>)
         rest     == Log(SummaryLogs(x.reasoning)
                         \o << <<Msg("Itinerary generated successfully", Empty), "success">> >>)
         caught   == Catch(complete, <<"send failed">>, other.res)
     IN  IF Threw(complete)
         THEN /\ wire' = caught.wire
              /\ other' = [other EXCEPT !.pc = caught.pc,
                                        !.res = caught.res,
                                        !.emitted = @ \o Calls(caught.wire)]
         ELSE /\ wire' = complete \o rest
              /\ other' = [other EXCEPT !.pc = "done",
                                        !.res = Finish(@, x.jsonResult),
                                        !.emitted = @ \o Calls(complete \o rest)]
  /\ UNCHANGED <<debugClients, readyState, broken, firstVars>>

\* ------------------------------------------------------------ specification

Init ==
  /\ debugClients = <<>>
  /\ readyState = [o \in Observers |-> "NONE"]
  /\ broken = {}
  /\ wire = <<>>
  /\ body \in Bodies
  /\ pc = "idle"
  /\ stream = "none"
  /\ emitted = <<>>
  /\ delivered = <<>>
  /\ fullResponse = Empty
  /\ reasoningBuffer = Empty
  /\ inReasoning = FALSE
  /\ res = FreshRes
  /\ input = SampleInput
  /\ filtered = <<>>
  /\ timeline = <<>>
  /\ other = IdleOther

Next ==
  \/ \E o \in Observers : Connect(o)
  \/ \E o \in Observers : BeginClose(o)
  \/ \E o \in Observers : Close(o)
  \/ Entry
  \/ CreateResolves
  \/ CreateRejects
  \/ \E content \in Frags \cup UNION {Range(s) : s \in Scripts} : NextChunk(content)
  \/ StreamEnds
  \/ StreamFails
  \/ Unhandled

\* send() on an OPEN connection does not throw, and the caller stays
\* connected until the response ends.
Spec == Init /\ [][Next]_vars

NextDisconnect ==
  \/ Next
  \/ CallerDisconnects

\* The caller may close its connection before the response ends.
SpecDisconnect == Init /\ [][NextDisconnect]_vars

NextSendFail ==
  \/ Next
  \/ \E o \in Observers : BreakSocket(o)

\* send() on an OPEN connection may throw.
SpecSendFail == Init /\ [][NextSendFail]_vars

\* Two well-formed requests in flight with one debug console open.
InitTwo ==
  /\ debugClients = <<1>>
  /\ readyState = [o \in Observers |-> IF o = 1 THEN "OPEN" ELSE "NONE"]
  /\ broken = {}
  /\ wire = <<>>
  /\ body = [hotel |-> TRUE, activities |-> TRUE, preferences |-> TRUE]
  /\ pc = "idle"
  /\ stream = "none"
  /\ emitted = <<>>
  /\ delivered = <<>>
  /\ fullResponse = Empty
  /\ reasoningBuffer = Empty
  /\ inReasoning = FALSE
  /\ res = FreshRes
  /\ input = SampleInput
  /\ filtered = <<>>
  /\ timeline = <<>>
  /\ other = IdleOther

NextTwo ==
  \/ Entry
  \/ CreateResolves
  \/ \E content \in Frags \cup UNION {Range(s) : s \in Scripts} : NextChunk(content)
  \/ StreamEnds
  \/ OtherEntry
  \/ OtherCreateResolves
  \/ \E content \in OtherFrags : OtherChunk(content)
  \/ OtherEnds

SpecTwo == InitTwo /\ [][NextTwo]_vars

\* A well-formed request with any of the bounded bodies arrives; no debug
\* console is open.
InitFilter ==
  /\ debugClients = <<>>
  /\ readyState = [o \in Observers |-> "NONE"]
  /\ broken = {}
  /\ wire = <<>>
  /\ body = [hotel |-> TRUE, activities |-> TRUE, preferences |-> TRUE]
  /\ pc = "idle"
  /\ stream = "none"
  /\ emitted = <<>>
  /\ delivered = <<>>
  /\ fullResponse = Empty
  /\ reasoningBuffer = Empty
  /\ inReasoning = FALSE
  /\ res = FreshRes
  /\ input \in Inputs
  /\ filtered = <<>>
  /\ timeline = <<>>
  /\ other = IdleOther

NextFilter == Entry

SpecFilter == InitFilter /\ [][NextFilter]_vars


\* ------------------------------------------------------------------ claims

\* The contents of the events of one type written to the caller, in order.
RECURSIVE Contents(_, _)
Contents(events, type) ==
  IF events = <<>> THEN <<>>
  ELSE (IF Head(events).type = type THEN <<Head(events).content>> ELSE <<>>)
       \o Contents(Tail(events), type)

OpenSubscribed == {o \in Range(debugClients) : readyState[o] = "OPEN"}

Tags(calls) == {calls[i][1].tag : i \in 1..Len(calls)}

\* C1 as stated: the chunk events written to the caller are the fragments the
\* generator delivered, one chunk per fragment, in order, verbatim.
C1_ChunkPerFragment ==
  Contents(res.events, "chunk") = delivered

\* C1, amended: the chunk events written to the caller are the fragments WITH
\* TEXT the generator delivered, one chunk each, in order, verbatim, whatever
\* the classifier state; a stream chunk without text writes no chunk event.
C1_ChunkPerTextFragment ==
  Contents(res.events, "chunk") = WithText(delivered)

C1_Witness ==
  /\ pc = "done"
  /\ Empty \in Range(delivered)
  /\ REASONING_MARK \in Range(delivered)
  /\ RESULT_MARK \in Range(delivered)
  /\ Len(Contents(res.events, "chunk")) >= 2

\* C2: when the generator completes without failing, the caller has exactly
\* one done event, written after every chunk event, and the response is ended;
\* and once the response is ended nothing more is written to it.
C2_DoneIsTerminal ==
  /\ [](stream = "ended" =>
          /\ Len(res.events) >= 1
          /\ res.events[Len(res.events)].type = "done"
          /\ \A i \in 1..(Len(res.events) - 1) : res.events[i].type = "chunk"
          /\ res.ended)
  /\ [][res.ended => res' = res]_vars

C2_Witness ==
  /\ stream = "ended"
  /\ Len(res.events) >= 3
  /\ wire = <<>>

\* C3 as stated: after a failure of the generator with at least one chunk
\* relayed, the error notification was broadcast, the response is closed with
\* an error once the handler has settled, and no done event was sent.
C3_FailureClosesResponse ==
  (stream = "failed" /\ Contents(res.events, "chunk") # <<>>) =>
     /\ <<Msg("Error: ", UpstreamErrorText), "error">> \in Range(emitted)
     /\ Contents(res.events, "done") = <<>>
     /\ pc # "rejected" => (res.ended \/ res.destroyed)

\* A request body without hotel, activities or preferences.
Malformed == ~body.hotel \/ ~body.activities \/ ~body.preferences

\* C4 as stated: a malformed request is answered with a client error before
\* any streaming: once the handler has settled there is a 4xx response, no
\* event was written and the generator was never called.
C4_ValidationError ==
  (Malformed /\ pc \notin {"idle", "rejected"}) =>
     /\ res.ended
     /\ res.status \in 400..499
     /\ res.events = <<>>
     /\ stream = "none"

\* Everything after the first occurrence of RESULT: in s.
AfterFirstResult(s) ==
  Slice(s, IndexOf(s, RESULT_MARK) + Len(RESULT_MARK), Len(s))

\* C5 as stated: for a final text containing RESULT:, the done event carries
\* everything after the FIRST occurrence of RESULT:, trimmed.
C5_ResultAfterFirstMarker ==
  (pc = "done" /\ Includes(fullResponse, RESULT_MARK)) =>
     Contents(res.events, "done") = <<Trim(AfterFirstResult(fullResponse))>>

\* C6: a stream that ends without RESULT: in its text does not fail: the
\* request ends with one done event carrying the entire text, and no
\* reasoning-summary notification is made.
C6_NoMarkerFallback ==
  (stream = "ended" /\ ~Includes(fullResponse, RESULT_MARK)) =>
     /\ pc = "done"
     /\ Contents(res.events, "done") = <<fullResponse>>
     /\ res.ended
     /\ res.status = 200
     /\ ExtractResult(fullResponse).reasoning = Empty
     /\ "AI reasoning summary: " \notin Tags(emitted)
     /\ "Error: " \notin Tags(emitted)

C6_Witness ==
  /\ stream = "ended"
  /\ ~Includes(fullResponse, RESULT_MARK)
  /\ Includes(fullResponse, REASONING_MARK)
  /\ Trim(fullResponse) # fullResponse

\* C7: extraction is idempotent: extracting again from the result text the
\* done event carries gives that text unchanged, with an empty reasoning.
C7_ExtractIdempotent ==
  \A i \in 1..Len(res.events) :
     res.events[i].type = "done" =>
        ExtractResult(res.events[i].content)
          = [jsonResult |-> res.events[i].content, reasoning |-> Empty]

C7_Witness ==
  /\ pc = "done"
  /\ Len(Split(fullResponse, RESULT_MARK)) >= 3
  /\ Contents(res.events, "done") # <<Empty>>

\* C8: every logToDebug call delivers to exactly the observers that are in
\* debugClients and OPEN at that moment, and the observer set changes only
\* by a connection being added when it is made and removed when it closes:
\* a broadcast leaves it as it is, a skipped observer stays in it.
C8_BroadcastToOpenOnly ==
  [][/\ \A i \in 1..Len(wire') : wire'[i].to = OpenSubscribed'
     /\ \/ debugClients' = debugClients
        \/ \E o \in Observers :
             /\ readyState[o] = "NONE" /\ readyState'[o] = "OPEN"
             /\ debugClients' = Append(debugClients, o)
        \/ \E o \in Observers :
             /\ readyState[o] # "CLOSED" /\ readyState'[o] = "CLOSED"
             /\ debugClients' = Without(debugClients, o)
     /\ (pc' # pc \/ emitted' # emitted) => debugClients' = debugClients]_vars

C8_Witness ==
  /\ \E o \in Range(debugClients) : readyState[o] = "CLOSING"
  /\ OpenSubscribed # {}
  /\ Len(wire) >= 2
  /\ pc = "done"

\* C9: a connection that has closed is no longer in debugClients and is
\* among the receivers of no logToDebug call, the 'disconnected' one of its
\* own close included; and with no observer a call delivers nothing and does
\* not throw.
C9_NoDeliveryAfterClose ==
  /\ \A x \in Observers : readyState[x] = "CLOSED" =>
        /\ x \notin Range(debugClients)
        /\ \A i \in 1..Len(wire) : x \notin wire[i].to
  /\ debugClients = <<>> =>
        \A i \in 1..Len(wire) : wire[i].to = {} /\ ~wire[i].threw

C9_Witness ==
  /\ \E x \in Observers : readyState[x] = "CLOSED"
  /\ \E y \in Observers : readyState[y] = "OPEN"
  /\ wire # <<>>
  /\ wire[1].message.tag = "Debug console disconnected"
  /\ wire[1].to # {}

\* C10 as stated: a send that fails for one observer is silent: the call does
\* not throw, and every other OPEN observer still gets the record.
C10_IndependentDelivery ==
  \A i \in 1..Len(wire) :
     /\ ~wire[i].threw
     /\ OpenSubscribed \ broken \subseteq wire[i].to

\* The concatenation of the texts ss, in order.
RECURSIVE Concat(_)
Concat(ss) == IF ss = <<>> THEN Empty ELSE Head(ss) \o Concat(Tail(ss))

\* The calls among calls that the classifier of the loop makes.
OfClassifier(calls) ==
  SelectSeq(calls, LAMBDA c : c[1].tag \in {Started[1].tag, Completed[1].tag, "AI: "})

\* A handler running alone on the fragments frags, from fresh locals: the
\* logToDebug calls its classifier makes, in order.
RECURSIVE Alone(_)
Alone(frags) ==
  IF frags = <<>>
  THEN [reasoningBuffer |-> Empty, inReasoning |-> FALSE, logs |-> <<>>]
  ELSE LET before  == Alone(SubSeq(frags, 1, Len(frags) - 1))
           content == frags[Len(frags)]
           c       == Classify(before.reasoningBuffer, before.inReasoning, content)
       IN  IF content = Empty THEN before
           ELSE [reasoningBuffer |-> c.reasoningBuffer,
                 inReasoning     |-> c.inReasoning,
                 logs            |-> before.logs \o c.logs]

\* What a request that got the fragments frags has put out so far is what it
\* puts out when it runs alone.
AsAlone(frags, events, calls, finished) ==
  /\ Contents(events, "chunk") = WithText(frags)
  /\ OfClassifier(calls) = Alone(frags).logs
  /\ finished => Contents(events, "done") = <<ExtractResult(Concat(frags)).jsonResult>>
  /\ ~finished => Contents(events, "done") = <<>>

\* C11: with two requests in flight, in every interleaving of their fragment
\* arrivals, each request's chunk events, classifier notifications and done
\* event are those of the same request running alone on its own fragments.
C11_NoInterference ==
  /\ AsAlone(delivered, res.events, emitted, pc = "done")
  /\ AsAlone(other.delivered, other.res.events, other.emitted, other.pc = "done")

C11_Witness ==
  /\ pc = "streaming" /\ other.pc = "streaming"
  /\ inReasoning /\ other.inReasoning
  /\ Len(delivered) >= 2
  /\ Len(other.delivered) >= 2
  /\ reasoningBuffer # other.reasoningBuffer
  /\ "AI: " \in Tags(emitted)
  /\ wire # <<>> /\ wire[1].message.tag = "AI: "

\* C12 as stated: once the caller has disconnected, no further fragment of
\* the request is processed: none is taken from the generator, appended to
\* the accumulated text, classified, relayed as a chunk event or turned into
\* a classifier notification.
C12_DisconnectStopsProcessing ==
  [][(res.gone /\ pc = "streaming") =>
       /\ delivered' = delivered
       /\ fullResponse' = fullResponse
       /\ reasoningBuffer' = reasoningBuffer
       /\ inReasoning' = inReasoning
       /\ Contents(res'.events, "chunk") = Contents(res.events, "chunk")
       /\ OfClassifier(emitted') = OfClassifier(emitted)]_vars

\* The positions of input.activities whose activity is within maxDistance of
\* the hotel and costs no more than budget, an absent price counting as 0.
Admitted ==
  {i \in DOMAIN input.activities :
     LET a == input.activities[i]
     IN  /\ calculateDistance(input.hotel.lat, input.hotel.lng, a.lat, a.lng)
              <= input.preferences.maxDistance * 1000
         /\ (IF a.hasPrice THEN a.price ELSE 0) <= input.preferences.budget}

\* C13: the geo filter admits an activity if and only if it is within
\* maxDistance AND its price (0 when absent) is within budget; filtered is
\* exactly the admitted activities in their original order; and the
\* activities of the request are not modified.
C13_FilterAdmitsBoth ==
  /\ [](pc = "creating" =>
          /\ Len(filtered) = Cardinality(Admitted)
          /\ \A i \in Admitted :
               filtered[Cardinality({j \in Admitted : j <= i})] = input.activities[i])
  /\ [][input' = input]_vars

C13_Witness ==
  /\ pc = "creating"
  /\ Len(input.activities) = 2
  /\ input.activities[1].name = "zoo"
  /\ input.activities[2].name = "museum"
  /\ filtered = <<input.activities[2]>>
  /\ input.preferences = [maxDistance |-> 70, budget |-> 100]

\* How many of the calls are the call c.
Count(calls, c) == Cardinality({i \in 1..Len(calls) : calls[i] = c})

\* C14 as stated: the classifier only moves forward and the state after
\* RESULT: is terminal: the started and the completed notification are each
\* made at most once per request, once completed is made the classifier is
\* never in the reasoning section again, and no 'AI: <sentence>' notification
\* follows the completed one.
C14_ClassifierForwardOnly ==
  /\ Count(emitted, Started) <= 1
  /\ Count(emitted, Completed) <= 1
  /\ Completed \in Range(emitted) => ~inReasoning
  /\ \A i, j \in 1..Len(emitted) :
       (i < j /\ emitted[i] = Completed) => emitted[j][1].tag # "AI: "

\* REASONING: occurs in s and RESULT: occurs after it.
MarkersInOrder(s) ==
  \E i, j \in 1..Len(s) :
     /\ OccursAt(s, REASONING_MARK, i)
     /\ OccursAt(s, RESULT_MARK, j)
     /\ i + Len(REASONING_MARK) <= j

\* C15 as stated: however the text is cut into fragments, cuts inside a
\* marker included, a stream whose text has REASONING: and later RESULT: has
\* made, when it ends, the started notification and after it the completed
\* notification.
C15_MarkersFoundInAnyCutting ==
  (pc = "done" /\ MarkersInOrder(fullResponse)) =>
     \E i, j \in 1..Len(emitted) :
        i < j /\ emitted[i] = Started /\ emitted[j] = Completed

\* The reasoning section of s: the text after the first REASONING: up to the
\* RESULT: that follows it, or to the end.
ReasoningSection(s) ==
  LET i    == IndexOf(s, REASONING_MARK)
      rest == Slice(s, i + Len(REASONING_MARK), Len(s))
      j    == IndexOf(rest, RESULT_MARK)
  IN  IF i = 0 THEN Empty
      ELSE IF j = 0 THEN rest ELSE Slice(rest, 1, j - 1)

\* The completed sentences of s: the stretches ended by . ! or ? that
\* whitespace follows, trimmed.
CompletedSentences(s) ==
  LET parts == SplitSentences(s)
  IN  {Trim(parts[k]) : k \in 1..(Len(parts) - 1)}

\* C16 as stated: however the stream is cut into fragments, when it has
\* ended every completed sentence of the reasoning section with 11 or more
\* characters after trimming has been notified as 'AI: <sentence>', info.
C16_LongSentencesNotified ==
  pc = "done" =>
     \A sentence \in CompletedSentences(ReasoningSection(fullResponse)) :
        Len(sentence) >= 11 => <<Msg("AI: ", sentence), "info">> \in Range(emitted)

\* C17: a sentence of 10 or fewer characters after trimming is never
\* notified: every 'AI: <sentence>' notification made carries a trimmed
\* sentence longer than 10; and the text of a sentence the loop passes over
\* as too short is part of the accumulated text all the same.
C17_ShortSentencesDropped ==
  /\ [](\A i \in 1..Len(emitted) :
          emitted[i][1].tag = "AI: " =>
             /\ Len(emitted[i][1].arg) > 10
             /\ Trim(emitted[i][1].arg) = emitted[i][1].arg)
  /\ [][(delivered' # delivered /\ delivered'[Len(delivered')] # Empty) =>
          LET turn == Classify(reasoningBuffer, inReasoning, delivered'[Len(delivered')])
          IN  \A i \in 1..Len(turn.skipped) :
                 /\ Len(turn.skipped[i]) <= 10
                 /\ <<Msg("AI: ", turn.skipped[i]), "info">> \notin Range(Calls(wire'))
                 /\ Includes(fullResponse', turn.skipped[i])]_vars

C17_Witness ==
  /\ pc = "streaming"
  /\ Includes(fullResponse, <<"m","o","r","e"," ","t","e","x","t",".">>)
  /\ <<Msg("AI: ", <<"h","e","l","l","o"," ","w","o","r","l","d",".">>), "info">>
        \in Range(emitted)
  /\ wire = <<>>
  /\ reasoningBuffer = Empty

\* C18: fullResponse is append-only for the life of a request: at every
\* moment it is the concatenation, in arrival order, of the fragments
\* received so far, none re-ordered or left out, and each value of it is a
\* prefix of the next.
C18_AccumulatedAppendOnly ==
  /\ [](fullResponse = Concat(delivered))
  /\ [][IsPrefix(fullResponse, fullResponse')]_vars

C18_Witness ==
  /\ pc = "streaming"
  /\ Len(delivered) = 3
  /\ delivered[1] # delivered[2]
  /\ delivered[2] = Empty
  /\ delivered[3] = REASONING_MARK
  /\ Len(fullResponse) > Len(REASONING_MARK)

\* The positions of the timeline at which a chunk event is written.
ChunkWrites ==
  {p \in 1..Len(timeline) :
     timeline[p].out = "write" /\ timeline[p].event.type = "chunk"}

\* The logToDebug calls made before position p of the timeline.
CallsBefore(p) ==
  LET logs == SelectSeq(SubSeq(timeline, 1, p - 1), LAMBDA e : e.out = "log")
  IN  [i \in 1..Len(logs) |-> logs[i].call]

\* C19: every classifier notification derived from a fragment (started,
\* completed, 'AI: <sentence>') is made before that fragment's chunk event
\* is written and after the chunk event of the fragment before it: when the
\* k-th chunk event is written, the classifier notifications made so far are
\* exactly those of the first k fragments with text.
C19_NotifyBeforeRelay ==
  \A p \in ChunkWrites :
     LET k     == Cardinality({q \in ChunkWrites : q <= p})
         texts == WithText(delivered)
     IN  /\ k <= Len(texts)
         /\ timeline[p].event.content = texts[k]
         /\ OfClassifier(CallsBefore(p)) = Alone(SubSeq(texts, 1, k)).logs

C19_Witness ==
  \E p, q, r \in 1..Len(timeline) :
     /\ p < q /\ q < r
     /\ p \in ChunkWrites /\ r \in ChunkWrites
     /\ timeline[q].out = "log" /\ timeline[q].call[1].tag = "AI: "
     /\ timeline[p - 1].out = "log" /\ timeline[p - 1].call = Started

\* C20: in every state of a request the completed notifications made are
\* never more than the started ones, the difference is 0 or 1, and it is 1
\* exactly when inReasoning is true.
C20_StartedCompletedBalanced ==
  LET started   == Count(emitted, Started)
      completed == Count(emitted, Completed)
  IN  /\ completed <= started
      /\ started - completed \in {0, 1}
      /\ (started - completed = 1) <=> inReasoning

C20_Witness ==
  /\ Count(emitted, Started) = 2
  /\ Count(emitted, Completed) = 1
  /\ inReasoning
  /\ pc = "done"

====
